---- MODULE Spec2Model ----
(***************************************************************************)
(* A model of the GaslessSDK client class (solana-gasless-sdk): the three  *)
(* relayer calls getWallet, sendTransaction and getTransactionHistory, the *)
(* sign-in / sign-out operations that decide auth.currentUser, and the two *)
(* static unit conversions solToLamports and lamportsToSol.                *)
(*                                                                         *)
(* JavaScript values are tagged records ([t |-> "undefined"], strings,     *)
(* objects, errors), so that the falsiness tests, the optional chaining    *)
(* and the || fallbacks of the code are computed as JavaScript computes    *)
(* them.  Every async method is cut at its awaits: a call is entered       *)
(* (currentUser is read and getIdToken is invoked), the token promise      *)
(* settles, the HTTP promise settles.  The identity provider and the HTTP  *)
(* layer (axios and the relayer behind it) are the environment: their      *)
(* answers are chosen nondeterministically from small sets.                *)
(***************************************************************************)
EXTENDS Integers, Sequences, FiniteSets, TLC

VARIABLES
    construction,   \* new GaslessSDK(config): the argument given and what the
                    \* constructor threw (undefined: it returned an instance)
    relayerUrl,     \* GaslessSDK.relayerUrl, assigned by the constructor
    currentUser,    \* this.auth.currentUser: JsNull or a signed-in user
    tokenEpoch,     \* identity provider: how often ID tokens were refreshed
    calls,          \* the calls in flight, one record per caller slot
    relayCount,     \* /relay requests sent for the signed-in user's wallet since
                    \* that user signed in (saturating above the rate limit)
    conv            \* the unit-conversion pipeline (see the second part)

vars == <<construction, relayerUrl, currentUser, tokenEpoch, calls, relayCount, conv>>

(***************************************************************************)
(* Bounds of the model.                                                    *)
(***************************************************************************)
\* number of caller slots: calls that can be in flight at the same time
MaxSlots == 1
\* number of ID token refreshes of the identity provider
MaxRefresh == 1
\* unit conversions: amounts n / 10^d with |n| <= MaxMantissa, d <= MaxDecimals
MaxMantissa == 64
MaxDecimals == 10
\* unit conversions: number of conversions applied in a row
MaxOps == 2

Slots == 1..MaxSlots

(***************************************************************************)
(* JavaScript numbers.  A number is an IEEE 754 double: sign, a            *)
(* significand of at most 53 bits and a binary exponent.  The products and *)
(* quotients of the conversions need up to 128 bits before rounding, so    *)
(* naturals of any size are kept as little-endian sequences of 15-bit      *)
(* limbs without leading zero limbs (0 is <<>>).  The recursive helpers    *)
(* are functions, so that their arguments are evaluated once.              *)
(***************************************************************************)
Base == 2^15

Limb(a, i) == IF i <= Len(a) THEN a[i] ELSE 0

BNFromNat[n \in Nat] ==
    IF n = 0 THEN <<>> ELSE <<n % Base>> \o BNFromNat[n \div Base]

BNNorm[a \in Seq(Nat)] ==
    IF a = <<>> THEN <<>>
    ELSE IF a[Len(a)] = 0 THEN BNNorm[SubSeq(a, 1, Len(a) - 1)] ELSE a

BNAddAt[a \in Seq(Nat), b \in Seq(Nat), i \in Nat, c \in Nat] ==
    IF i > Len(a) /\ i > Len(b)
    THEN (IF c = 0 THEN <<>> ELSE <<c>>)
    ELSE <<(Limb(a, i) + Limb(b, i) + c) % Base>>
         \o BNAddAt[a, b, i + 1, (Limb(a, i) + Limb(b, i) + c) \div Base]

BNAdd[a \in Seq(Nat), b \in Seq(Nat)] == BNAddAt[a, b, 1, 0]

\* a - b for a >= b; c is the borrow
BNSubAt[a \in Seq(Nat), b \in Seq(Nat), i \in Nat, c \in Nat] ==
    IF i > Len(a) THEN <<>>
    ELSE <<(Limb(a, i) - Limb(b, i) - c) % Base>>
         \o BNSubAt[a, b, i + 1, IF Limb(a, i) - Limb(b, i) - c < 0 THEN 1 ELSE 0]

BNSub[a \in Seq(Nat), b \in Seq(Nat)] == BNNorm[BNSubAt[a, b, 1, 0]]

\* a < b, comparing from limb i down
BNLtAt[a \in Seq(Nat), b \in Seq(Nat), i \in Nat] ==
    IF i = 0 THEN FALSE
    ELSE IF a[i] # b[i] THEN a[i] < b[i] ELSE BNLtAt[a, b, i - 1]

BNLt[a \in Seq(Nat), b \in Seq(Nat)] ==
    IF Len(a) # Len(b) THEN Len(a) < Len(b) ELSE BNLtAt[a, b, Len(a)]

\* a * m for one limb m
BNMulLimbAt[a \in Seq(Nat), m \in Nat, i \in Nat, c \in Nat] ==
    IF i > Len(a)
    THEN (IF c = 0 THEN <<>> ELSE <<c>>)
    ELSE <<(a[i] * m + c) % Base>> \o BNMulLimbAt[a, m, i + 1, (a[i] * m + c) \div Base]

BNMulLimb[a \in Seq(Nat), m \in Nat] ==
    IF m = 0 THEN <<>> ELSE BNMulLimbAt[a, m, 1, 0]

\* a * Base^k
BNShlLimbs[a \in Seq(Nat), k \in Nat] ==
    IF a = <<>> THEN <<>> ELSE [i \in 1..k |-> 0] \o a

BNMulAt[a \in Seq(Nat), b \in Seq(Nat), j \in Nat] ==
    IF j > Len(b) THEN <<>>
    ELSE BNAdd[BNMulLimb[a, b[j]], BNShlLimbs[BNMulAt[a, b, j + 1], 1]]

BNMul[a \in Seq(Nat), b \in Seq(Nat)] == BNMulAt[a, b, 1]

\* number of bits of a limb
LimbBitLen[n \in Nat] == IF n = 0 THEN 0 ELSE 1 + LimbBitLen[n \div 2]

BNBitLen[a \in Seq(Nat)] ==
    IF a = <<>> THEN 0 ELSE 15 * (Len(a) - 1) + LimbBitLen[a[Len(a)]]

\* bit k of a (bit 0 is the lowest)
BNBit[a \in Seq(Nat), k \in Nat] == (Limb(a, (k \div 15) + 1) \div (2^(k % 15))) % 2

\* a * 2^k
BNShl[a \in Seq(Nat), k \in Nat] == BNShlLimbs[BNMulLimb[a, 2^(k % 15)], (k \div 15)]

\* floor(a / 2^k)
BNShr[a \in Seq(Nat), k \in Nat] ==
    IF (k \div 15) >= Len(a) THEN <<>>
    ELSE BNNorm[[i \in 1..(Len(a) - (k \div 15)) |->
                   (Limb(a, i + (k \div 15)) \div (2^(k % 15)))
                   + (Limb(a, i + (k \div 15) + 1) % (2^(k % 15))) * (2^(15 - (k % 15)))]]

\* a mod 2^k # 0
BNLowBitsSet[a \in Seq(Nat), k \in Nat] ==
    \/ \E i \in 1..(k \div 15) : Limb(a, i) # 0
    \/ Limb(a, (k \div 15) + 1) % (2^(k % 15)) # 0

\* number of trailing zero bits of a # 0
BNTrailingZeros[a \in Seq(Nat), k \in Nat] ==
    IF BNBit[a, k] = 1 THEN k ELSE BNTrailingZeros[a, k + 1]

\* long division, bit i of a down to bit 0, with quotient q and remainder r
\* of the bits above: <<quotient, remainder>>, b # 0
BNDivAt[a \in Seq(Nat), b \in Seq(Nat), i \in Int, q \in Seq(Nat), r \in Seq(Nat)] ==
    IF i < 0 THEN <<q, r>>
    ELSE IF BNLt[BNAdd[BNAdd[r, r], BNFromNat[BNBit[a, i]]], b]
         THEN BNDivAt[a, b, i - 1, BNAdd[q, q],
                      BNAdd[BNAdd[r, r], BNFromNat[BNBit[a, i]]]]
         ELSE BNDivAt[a, b, i - 1, BNAdd[BNAdd[q, q], <<1>>],
                      BNSub[BNAdd[BNAdd[r, r], BNFromNat[BNBit[a, i]]], b]]

\* the top BNBitLen[b] - 1 bits of a are less than b: division starts below them
BNDivMod[a \in Seq(Nat), b \in Seq(Nat)] ==
    IF BNBitLen[a] < BNBitLen[b] THEN <<(<<>>), a>>
    ELSE BNDivAt[a, b, BNBitLen[a] - BNBitLen[b], <<>>,
                 BNShr[a, BNBitLen[a] - BNBitLen[b] + 1]]

\* the significand width of a double
Precision == 53

\* a finite double (-1)^neg * mant * 2^exp in lowest terms: mant is odd, or
\* the number is zero.  Two doubles are equal (===) iff the records are.
Double(neg, mant, exp) == [t |-> "number", neg |-> neg, mant |-> mant, exp |-> exp]
Zero == Double(FALSE, <<>>, 0)

Reduce[neg \in BOOLEAN, m \in Seq(Nat), e \in Int] ==
    IF m = <<>> THEN Zero
    ELSE Double(neg, BNShr[m, BNTrailingZeros[m, 0]], e + BNTrailingZeros[m, 0])

\* round-to-nearest, ties-to-even, of m * 2^e where m has k > 0 bits too many
RoundOff[neg \in BOOLEAN, m \in Seq(Nat), e \in Int, k \in Nat] ==
    IF BNBit[m, k - 1] = 1 /\ (BNLowBitsSet[m, k - 1] \/ BNBit[m, k] = 1)
    THEN Reduce[neg, BNAdd[BNShr[m, k], <<1>>], e + k]
    ELSE Reduce[neg, BNShr[m, k], e + k]

\* the double nearest to (-1)^neg * m * 2^e
Round[neg \in BOOLEAN, m \in Seq(Nat), e \in Int] ==
    IF BNBitLen[m] <= Precision THEN Reduce[neg, m, e]
    ELSE RoundOff[neg, m, e, BNBitLen[m] - Precision]

Abs(n) == IF n < 0 THEN 0 - n ELSE n
Min(a, b) == IF a < b THEN a ELSE b

\* the double of an integer literal
DInt(n) == Round[n < 0, BNFromNat[Abs(n)], 0]

\* x * y
DMul(x, y) == Round[x.neg # y.neg, BNMul[x.mant, y.mant], x.exp + y.exp]

\* the quotient of m by d # 0 with extra bits s, and a sticky bit for the remainder
DivRound[neg \in BOOLEAN, qr \in Seq(Seq(Nat)), e \in Int] ==
    IF qr[2] = <<>> THEN Round[neg, qr[1], e]
    ELSE Round[neg, BNAdd[BNAdd[qr[1], qr[1]], <<1>>], e - 1]

\* x / y for y # 0: the quotient is computed to at least Precision + 2 bits
DivShift(x, y) ==
    IF BNBitLen[x.mant] >= Precision + 3 + BNBitLen[y.mant] THEN 0
    ELSE Precision + 3 + BNBitLen[y.mant] - BNBitLen[x.mant]
DDiv(x, y) ==
    IF x.mant = <<>> THEN Zero
    ELSE DivRound[x.neg # y.neg,
                  BNDivMod[BNShl[x.mant, DivShift(x, y)], y.mant],
                  x.exp - y.exp - DivShift(x, y)]

\* Math.floor(x)
Floor(x) ==
    IF x.exp >= 0 THEN x
    ELSE IF x.neg THEN Round[TRUE, BNAdd[BNShr[x.mant, 0 - x.exp], <<1>>], 0]
         ELSE Round[FALSE, BNShr[x.mant, 0 - x.exp], 0]

\* x is a whole number
IsWhole(x) == x.exp >= 0

\* the magnitude of a whole number x as an exact natural
WholeMagnitude(x) == BNShl[x.mant, x.exp]

(***************************************************************************)
(* The static unit conversions.                                            *)
(***************************************************************************)
\* the literal 1e9
LamportsPerSol == 1000000000

\* a conversion with the factor of another unit (10^6)
solToLamportsMicro(sol) == Floor(DMul(sol, DInt(1000000)))

\* static solToLamports(sol: number): number
solToLamports(sol) == Floor(DMul(sol, DInt(LamportsPerSol)))

\* static lamportsToSol(lamports: number): number
lamportsToSol(lamports) == DDiv(lamports, DInt(LamportsPerSol))

\* 10^d as an exact natural
Pow10[d \in Nat] == IF d = 0 THEN <<1>> ELSE BNMulLimb[Pow10[d - 1], 10]

\* the number a decimal literal n / 10^d denotes: the nearest double
ParseDecimal(n, d) == DDiv(DInt(n), Round[FALSE, Pow10[d], 0])

\* the amounts the conversions are applied to: decimal literals, among them
\* the whole numbers, and the lamport amounts the documentation uses
DocumentedLamports == {LamportsPerSol, 100000000}
ConvInputs ==
    {ParseDecimal(n, d) : n \in (0 - MaxMantissa)..MaxMantissa, d \in 0..MaxDecimals}
    \cup {DInt(l) : l \in DocumentedLamports}

(***************************************************************************)
(* JavaScript values.                                                      *)
(***************************************************************************)
JsUndefined == [t |-> "undefined"]
JsNull == [t |-> "null"]
Str(s) == [t |-> "string", v |-> s]
\* an object literal / parsed JSON object: f is a record of its properties
Obj(f) == [t |-> "object", f |-> f]
\* an array
Arr(s) == [t |-> "array", v |-> s]

\* a test that takes only null for false
FalsyNullOnly(v) == v.t = "null"

\* ToBoolean(v) = false: undefined, null, the empty string
Falsy(v) == \/ v.t \in {"undefined", "null"}
            \/ (v.t = "string" /\ v.v = "")

\* b || a
OrReversed(a, b) == IF Falsy(b) THEN a ELSE b

\* a || b
Or(a, b) == IF Falsy(a) THEN b ELSE a

Nullish(v) == v.t \in {"undefined", "null"}

\* o.k for a non-nullish o (a property read on null or undefined throws)
Get(o, k) ==
    IF o.t \in {"object", "error"} /\ k \in DOMAIN o.f THEN o.f[k] ELSE JsUndefined

\* o?.k
OptGet(o, k) == IF Nullish(o) THEN JsUndefined ELSE Get(o, k)

(***************************************************************************)
(* Errors that can be thrown inside the three methods.                     *)
(***************************************************************************)
\* new Error(msg)
NewError(msg) == [t |-> "error", f |-> [message |-> Str(msg)]]

NotAuthenticatedMsg == "User not authenticated"

\* property read on a null / undefined response body
TypeErrorMsg == "Cannot read properties of null"

\* axios rejects a non-2xx answer with the response attached
AxiosStatusError(status, data) ==
    [t |-> "error",
     f |-> [message |-> Str("Request failed with status code"),
            response |-> Obj([status |-> status, data |-> data])]]

\* axios rejects a request that got no answer: there is no response
AxiosNetworkError == [t |-> "error", f |-> [message |-> Str("Network Error")]]

\* a rejection with a value that has no message property
BareError == [t |-> "error", f |-> [name |-> Str("Error")]]

\* getIdToken() rejects
FirebaseTokenError ==
    [t |-> "error", f |-> [message |-> Str("Firebase: Error (auth/network-request-failed).")]]

(***************************************************************************)
(* The constructor.                                                        *)
(***************************************************************************)
DefaultRelayerUrl == "https://relayer-backend.onrender.com"
CustomRelayerUrl == "https://your-custom-relayer.com"

\* config.firebaseConfig: the project's Firebase settings, passed on unread
FirebaseConfig == Obj([apiKey |-> Str("YOUR_API_KEY"), projectId |-> Str("YOUR_PROJECT_ID")])

\* a config as its type asks for it: without relayerUrl, with a custom one
TypicalConfigs ==
    {Obj([firebaseConfig |-> FirebaseConfig]),
     Obj([relayerUrl |-> Str(CustomRelayerUrl), firebaseConfig |-> FirebaseConfig])}

\* every argument of new GaslessSDK(...): also none at all (the parameter is
\* then undefined) and a config with an empty relayerUrl
Configs ==
    TypicalConfigs
    \cup {JsUndefined, Obj([relayerUrl |-> Str(""), firebaseConfig |-> FirebaseConfig])}

\* a constructor that takes the default only for a missing relayerUrl (??)
ConstructorNullishDefault(config) ==
    IF Nullish(config)
    THEN [thrown |-> NewError(TypeErrorMsg), relayerUrl |-> JsUndefined]
    ELSE [thrown |-> JsUndefined,
          relayerUrl |-> IF Nullish(Get(config, "relayerUrl"))
                         THEN Str(DefaultRelayerUrl)
                         ELSE Get(config, "relayerUrl")]

\* this.relayerUrl = config.relayerUrl || 'https://relayer-backend.onrender.com'
\* The property read throws a TypeError when config is undefined: nothing is
\* assigned and no instance is returned.
Constructor(config) ==
    IF Nullish(config)
    THEN [thrown |-> NewError(TypeErrorMsg), relayerUrl |-> JsUndefined]
    ELSE [thrown |-> JsUndefined,
          relayerUrl |-> Or(Get(config, "relayerUrl"), Str(DefaultRelayerUrl))]

\* the constructor returned an instance: there is an object to call the
\* methods on
Constructed == Nullish(construction.thrown)

(***************************************************************************)
(* The identity provider.                                                  *)
(***************************************************************************)
GoogleUsers == {"alice"}
GithubUsers == {"bob"}
Users == GoogleUsers \cup GithubUsers

User(u) == [t |-> "user", uid |-> u]

\* the ID token the provider issues for user u in epoch e (a non-empty string)
IdToken(u, e) == [t |-> "token", uid |-> u, epoch |-> e]

(***************************************************************************)
(* Arguments of sendTransaction and the relayer's answers.                 *)
(***************************************************************************)
\* documented limits (README, Limitations): SOL per transfer, requests per
\* wallet in three hours
MaxTransferSol == 15
RateLimit == 3

Recipients == {"RecipientA", ""}

\* the documented maximum transfer in lamports, as an exact natural
MaxTransferLamports == BNMul[BNFromNat[MaxTransferSol], BNFromNat[LamportsPerSol]]

\* lamports arguments: zero, negative, one SOL, one lamport above the
\* documented maximum
LamportsArgs == {DInt(0), DInt(-1), DInt(LamportsPerSol),
                 Round[FALSE, BNAdd[MaxTransferLamports, <<1>>], 0]}

SendArgs == {[recipient |-> Str(r), lamports |-> l] : r \in Recipients, l \in LamportsArgs}
NoArgs == [recipient |-> JsUndefined, lamports |-> JsUndefined]

\* what the relayer signs and reports: its own values, not the caller's
RelayData ==
    Obj([signature |-> Str("5igNature"), recipient |-> Str("RecipientA"),
         lamports |-> DInt(100000000)])
WalletData == Obj([publicKey |-> Str("WalletPubKey")])
HistoryData ==
    Obj([transactions |-> Arr(<<[signature |-> "5igNature", recipient |-> "RecipientA"]>>)])

EmptyData == Obj([status |-> Str("ok")])

\* 2xx answers of an endpoint: the documented body, a body without the
\* documented fields, a null body
OkBodies(kind) ==
    {CASE kind = "getWallet" -> WalletData
       [] kind = "sendTransaction" -> RelayData
       [] kind = "getTransactionHistory" -> HistoryData,
     EmptyData, JsNull}

\* messages of the relayer's error answers
ServerMessages == {"Too many requests", ""}

\* What the environment can answer to a call.  from names who answered (the
\* identity provider or the HTTP layer), status is the relayer's status code
\* (0: no answer arrived), said the message the relayer put in its error
\* body (undefined: none).  The promise the call awaits is fulfilled with
\* response, or rejected with error.
Answer(from, ok, status, said, response, error) ==
    [from |-> from, ok |-> ok, status |-> status, said |-> said,
     response |-> response, error |-> error]

HttpOk(d) ==
    Answer("http", TRUE, 200, JsUndefined, Obj([status |-> 200, data |-> d]), JsUndefined)

HttpError(status, m) ==
    Answer("http", FALSE, status, Str(m), JsUndefined,
           AxiosStatusError(status, Obj([message |-> Str(m)])))

HttpErrorNoMessage(status) ==
    Answer("http", FALSE, status, JsUndefined, JsUndefined,
           AxiosStatusError(status, EmptyData))

HttpNoAnswer == Answer("http", FALSE, 0, JsUndefined, JsUndefined, AxiosNetworkError)

\* the request is rejected with a value that carries neither a response nor
\* a message
HttpRejectedBare == Answer("http", FALSE, 0, JsUndefined, JsUndefined, BareError)

HttpOutcomes(kind) ==
    {HttpOk(d) : d \in OkBodies(kind)}
    \cup {HttpError(429, m) : m \in ServerMessages}
    \cup {HttpErrorNoMessage(500), HttpNoAnswer, HttpRejectedBare}

\* no user is signed in: getIdToken() is not invoked, the token is undefined
NoUser == Answer("auth", FALSE, 0, JsUndefined, JsUndefined, JsUndefined)

\* getIdToken() is rejected
TokenFailure == Answer("auth", FALSE, 0, JsUndefined, JsUndefined, FirebaseTokenError)

(***************************************************************************)
(* The three methods, cut at their awaits.                                 *)
(***************************************************************************)
Idle ==
    [pc |-> "idle", kind |-> "none", args |-> NoArgs, user |-> JsNull,
     token |-> JsUndefined, request |-> JsUndefined, nreq |-> 0,
     answer |-> JsUndefined, settled |-> "pending", value |-> JsUndefined]

\* a header built from the first token the provider issued to the user
BearerFirstToken(token) ==
    [t |-> "string", scheme |-> "Bearer", credentials |-> IdToken(token.uid, 0)]

\* `Bearer ${token}`
Bearer(token) == [t |-> "string", scheme |-> "Bearer", credentials |-> token]

\* `${this.relayerUrl}/path`
Url(base, path) == [t |-> "string", base |-> base, path |-> path]

\* the request each method hands to axios once it holds a token
GetWalletRequest(base, token) ==
    [method |-> "GET", url |-> Url(base, "/me"),
     headers |-> [Authorization |-> Bearer(token)], body |-> JsUndefined]

SendTransactionRequest(base, token, recipientAddress, lamports) ==
    [method |-> "POST", url |-> Url(base, "/relay"),
     headers |-> [Authorization |-> Bearer(token)],
     body |-> Obj([to |-> recipientAddress, lamports |-> lamports])]

GetTransactionHistoryRequest(base, token) ==
    [method |-> "GET", url |-> Url(base, "/transactions"),
     headers |-> [Authorization |-> Bearer(token)], body |-> JsUndefined]

RequestOf(call, base, token) ==
    CASE call.kind = "getWallet" -> GetWalletRequest(base, token)
      [] call.kind = "sendTransaction" ->
            SendTransactionRequest(base, token, call.args.recipient, call.args.lamports)
      [] call.kind = "getTransactionHistory" -> GetTransactionHistoryRequest(base, token)

Fulfilled(v) == [settled |-> "fulfilled", value |-> v]
Rejected(e) == [settled |-> "rejected", value |-> e]

\* the catch blocks.  A property read on a null or undefined error throws
\* out of the catch block: the promise of the method is then rejected.
GetWalletCatch(error) == Fulfilled(JsNull)

\* a catch block that reports one message for every failure
SendTransactionCatchGeneric(error) ==
    Fulfilled([success |-> FALSE, error |-> Str("Transaction failed")])

\* a catch block that reports only the HTTP layer's message
SendTransactionCatchOwnMessage(error) ==
    IF Nullish(error) THEN Rejected(NewError(TypeErrorMsg))
    ELSE Fulfilled([success |-> FALSE, error |-> Get(error, "message")])

SendTransactionCatch(error) ==
    IF Nullish(error) THEN Rejected(NewError(TypeErrorMsg))
    ELSE Fulfilled([success |-> FALSE,
                    error |-> Or(OptGet(OptGet(Get(error, "response"), "data"), "message"),
                                 Get(error, "message"))])

\* a catch block that rethrows
GetTransactionHistoryRethrow(error) == Rejected(error)

GetTransactionHistoryCatch(error) == Fulfilled(Arr(<<>>))

Catch(kind, error) ==
    CASE kind = "getWallet" -> GetWalletCatch(error)
      [] kind = "sendTransaction" -> SendTransactionCatch(error)
      [] kind = "getTransactionHistory" -> GetTransactionHistoryCatch(error)

\* the statements after a fulfilled axios call; response.data.x throws when
\* response.data is null or undefined
GetWalletReturn(response) ==
    IF Nullish(Get(response, "data")) THEN GetWalletCatch(NewError(TypeErrorMsg))
    ELSE Fulfilled(Get(Get(response, "data"), "publicKey"))

\* a return statement that leaves the amount out
SendTransactionReturnNoLamports(response) ==
    IF Nullish(Get(response, "data")) THEN SendTransactionCatch(NewError(TypeErrorMsg))
    ELSE Fulfilled([success |-> TRUE,
                    signature |-> Get(Get(response, "data"), "signature"),
                    recipient |-> Get(Get(response, "data"), "recipient")])

\* a return statement outside the try block: the TypeError escapes
SendTransactionReturnUncaught(response) ==
    IF Nullish(Get(response, "data")) THEN Rejected(NewError(TypeErrorMsg))
    ELSE Fulfilled([success |-> TRUE,
                    signature |-> Get(Get(response, "data"), "signature"),
                    recipient |-> Get(Get(response, "data"), "recipient"),
                    lamports |-> Get(Get(response, "data"), "lamports")])

\* a return statement that also copies the body's message into an error field
SendTransactionReturnWithError(response) ==
    IF Nullish(Get(response, "data")) THEN SendTransactionCatch(NewError(TypeErrorMsg))
    ELSE Fulfilled([success |-> TRUE,
                    signature |-> Get(Get(response, "data"), "signature"),
                    recipient |-> Get(Get(response, "data"), "recipient"),
                    lamports |-> Get(Get(response, "data"), "lamports"),
                    error |-> Get(Get(response, "data"), "message")])

SendTransactionReturn(response) ==
    IF Nullish(Get(response, "data")) THEN SendTransactionCatch(NewError(TypeErrorMsg))
    ELSE Fulfilled([success |-> TRUE,
                    signature |-> Get(Get(response, "data"), "signature"),
                    recipient |-> Get(Get(response, "data"), "recipient"),
                    lamports |-> Get(Get(response, "data"), "lamports")])

GetTransactionHistoryReturn(response) ==
    IF Nullish(Get(response, "data")) THEN GetTransactionHistoryCatch(NewError(TypeErrorMsg))
    ELSE Fulfilled(Get(Get(response, "data"), "transactions"))

Return(kind, response) ==
    CASE kind = "getWallet" -> GetWalletReturn(response)
      [] kind = "sendTransaction" -> SendTransactionReturn(response)
      [] kind = "getTransactionHistory" -> GetTransactionHistoryReturn(response)

\* a method that reads a user kept from the first sign-in
EnterKeptUser(c, kind, args) ==
    /\ Constructed
    /\ calls[c].pc = "idle"
    /\ calls' = [calls EXCEPT ![c] =
                    [Idle EXCEPT !.pc = "token", !.kind = kind, !.args = args,
                                 !.user = IF relayCount > 0 THEN User("alice")
                                          ELSE currentUser]]
    /\ UNCHANGED <<construction, relayerUrl, currentUser, tokenEpoch, relayCount, conv>>

\* const token = await this.auth.currentUser?.getIdToken(): currentUser is
\* read, and getIdToken is invoked on it, when the method is entered
Enter(c, kind, args) ==
    /\ Constructed
    /\ calls[c].pc = "idle"
    /\ calls' = [calls EXCEPT ![c] =
                    [Idle EXCEPT !.pc = "token", !.kind = kind, !.args = args,
                                 !.user = currentUser]]
    /\ UNCHANGED <<construction, relayerUrl, currentUser, tokenEpoch, relayCount, conv>>

getWallet(c) == Enter(c, "getWallet", NoArgs)

sendTransaction(c, recipientAddress, lamports) ==
    Enter(c, "sendTransaction", [recipient |-> recipientAddress, lamports |-> lamports])

getTransactionHistory(c) == Enter(c, "getTransactionHistory", NoArgs)

\* a result kept in a field of the instance: every call that has ended
\* shows the latest one
FinishShared(c, answer, outcome) ==
    calls' = [d \in DOMAIN calls |->
                IF d = c
                THEN [calls[d] EXCEPT !.pc = "done", !.answer = answer,
                                      !.args = NoArgs,
                                      !.user = JsNull, !.token = JsUndefined,
                                      !.request = JsUndefined,
                                      !.settled = outcome.settled, !.value = outcome.value]
                ELSE IF calls[d].pc = "done"
                     THEN [calls[d] EXCEPT !.settled = outcome.settled,
                                           !.value = outcome.value]
                     ELSE calls[d]]

\* the call ends in its catch block or its return statement: its promise
\* settles and its local variables are gone
Finish(c, answer, outcome) ==
    calls' = [calls EXCEPT ![c].pc = "done", ![c].answer = answer,
                           ![c].args = NoArgs,
                           ![c].user = JsNull, ![c].token = JsUndefined,
                           ![c].request = JsUndefined,
                           ![c].settled = outcome.settled, ![c].value = outcome.value]

\* getIdToken() is rejected
TokenRejected(c) ==
    /\ calls[c].pc = "token"
    /\ ~Nullish(calls[c].user)
    /\ Finish(c, TokenFailure, Catch(calls[c].kind, FirebaseTokenError))
    /\ UNCHANGED <<construction, relayerUrl, currentUser, tokenEpoch, relayCount, conv>>

\* an axios call behind a client-side rate limit
SendRequestLimited(c, token) ==
    IF calls[c].kind = "sendTransaction" /\ relayCount >= RateLimit
    THEN /\ calls' = [calls EXCEPT ![c].pc = "done",
                                   ![c].answer = [NoUser EXCEPT !.from = "client"],
                                   ![c].user = JsNull,
                                   ![c].settled = "fulfilled",
                                   ![c].value = [success |-> FALSE,
                                                 error |-> Str("Too many requests")]]
         /\ UNCHANGED relayCount
    ELSE /\ calls' = [calls EXCEPT ![c].pc = "http", ![c].token = token,
                                   ![c].request = RequestOf(calls[c], relayerUrl, token),
                                   ![c].nreq = calls[c].nreq + 1]
         /\ relayCount' =
               IF /\ calls[c].kind = "sendTransaction"
                  /\ ~Nullish(currentUser)
                  /\ calls[c].user = currentUser
               THEN Min(relayCount + 1, RateLimit + 1)
               ELSE relayCount

\* the axios call: the request leaves with the token in its header
SendRequest(c, token) ==
    /\ calls' = [calls EXCEPT ![c].pc = "http", ![c].token = token,
                              ![c].request = RequestOf(calls[c], relayerUrl, token),
                              ![c].nreq = calls[c].nreq + 1]
    /\ relayCount' =
          IF /\ calls[c].kind = "sendTransaction"
             /\ ~Nullish(currentUser)
             /\ calls[c].user = currentUser
          THEN Min(relayCount + 1, RateLimit + 1)
          ELSE relayCount

\* the statements after the await of the token, without the test of the token
AfterTokenUnguarded(c, token) == SendRequest(c, token)

\* statements after the await of the token that wait for a sign-in instead
\* of throwing: without a token the method stays where it is
AfterTokenWaits(c, token) ==
    IF Falsy(token)
    THEN UNCHANGED <<calls, relayCount>>
    ELSE SendRequest(c, token)

\* the statements after the await of the token:
\* if (!token) throw new Error('User not authenticated'), then the axios call
AfterToken(c, token) ==
    IF Falsy(token)
    THEN /\ Finish(c, NoUser, Catch(calls[c].kind, NewError(NotAuthenticatedMsg)))
         /\ UNCHANGED relayCount
    ELSE SendRequest(c, token)

\* the await of the token resumes with undefined: no user was signed in
TokenAbsent(c) ==
    /\ calls[c].pc = "token"
    /\ Nullish(calls[c].user)
    /\ AfterToken(c, JsUndefined)
    /\ UNCHANGED <<construction, relayerUrl, currentUser, tokenEpoch, conv>>

\* getIdToken() is fulfilled with the user's current ID token
TokenFulfilled(c) ==
    /\ calls[c].pc = "token"
    /\ ~Nullish(calls[c].user)
    /\ AfterToken(c, IdToken(calls[c].user.uid, tokenEpoch))
    /\ UNCHANGED <<construction, relayerUrl, currentUser, tokenEpoch, conv>>

\* an answer that is dropped when the user has signed out meanwhile
SettleIfSignedIn(c, o) ==
    IF Nullish(currentUser)
    THEN Finish(c, o, Catch(calls[c].kind, NewError(NotAuthenticatedMsg)))
    ELSE Finish(c, o, IF o.ok THEN Return(calls[c].kind, o.response)
                      ELSE Catch(calls[c].kind, o.error))

\* a failed request is sent again
SettleRetry(c, o) ==
    IF o.ok THEN Finish(c, o, Return(calls[c].kind, o.response))
    ELSE calls' = [calls EXCEPT ![c].nreq = calls[c].nreq + 1]

\* the axios promise settles with outcome o
Settle(c, o) ==
    Finish(c, o, IF o.ok THEN Return(calls[c].kind, o.response)
                 ELSE Catch(calls[c].kind, o.error))

HttpSettled(c) ==
    /\ calls[c].pc = "http"
    /\ \E o \in HttpOutcomes(calls[c].kind) : Settle(c, o)
    /\ UNCHANGED <<construction, relayerUrl, currentUser, tokenEpoch, relayCount, conv>>

\* the caller takes the settled promise; the slot is free for the next call
Consume(c) ==
    /\ calls[c].pc = "done"
    /\ calls' = [calls EXCEPT ![c] = Idle]
    /\ UNCHANGED <<construction, relayerUrl, currentUser, tokenEpoch, relayCount, conv>>

(***************************************************************************)
(* Sign-in, sign-out and the identity provider.                            *)
(***************************************************************************)
\* signInWithPopup(this.auth, provider) succeeds for user u
SignInWithPopup(u) ==
    /\ Constructed
    /\ currentUser' = User(u)
    /\ relayCount' = 0
    /\ UNCHANGED <<construction, relayerUrl, tokenEpoch, calls, conv>>

signInWithGoogle(u) == u \in GoogleUsers /\ SignInWithPopup(u)

signInWithGithub(u) == u \in GithubUsers /\ SignInWithPopup(u)

signOut ==
    /\ Constructed
    /\ currentUser' = JsNull
    /\ UNCHANGED <<construction, relayerUrl, tokenEpoch, calls, relayCount, conv>>

\* the provider's ID tokens expire and are reissued
TokenRefresh ==
    /\ tokenEpoch < MaxRefresh
    /\ tokenEpoch' = tokenEpoch + 1
    /\ UNCHANGED <<construction, relayerUrl, currentUser, calls, relayCount, conv>>

(***************************************************************************)
(* The specification of the client.                                        *)
(***************************************************************************)
ConvIdle == [ops |-> <<>>, vals |-> <<>>]

Init ==
    /\ \E config \in TypicalConfigs :
          /\ construction = [config |-> config, thrown |-> Constructor(config).thrown]
          /\ relayerUrl = Constructor(config).relayerUrl
    /\ currentUser = JsNull
    /\ tokenEpoch = 0
    /\ calls = [c \in Slots |-> Idle]
    /\ relayCount = 0
    /\ conv = ConvIdle

Next ==
    \/ \E c \in DOMAIN calls : getWallet(c)
    \/ \E c \in DOMAIN calls, a \in SendArgs : sendTransaction(c, a.recipient, a.lamports)
    \/ \E c \in DOMAIN calls : getTransactionHistory(c)
    \/ \E c \in DOMAIN calls : TokenAbsent(c)
    \/ \E c \in DOMAIN calls : TokenRejected(c)
    \/ \E c \in DOMAIN calls : TokenFulfilled(c)
    \/ \E c \in DOMAIN calls : HttpSettled(c)
    \/ \E c \in DOMAIN calls : Consume(c)
    \/ \E u \in Users : signInWithGoogle(u)
    \/ \E u \in Users : signInWithGithub(u)
    \/ signOut
    \/ TokenRefresh

Spec == Init /\ [][Next]_vars

(***************************************************************************)
(* The specification of the client with an environment that answers: an    *)
(* await of the token resumes (at once when there is no user, and when the *)
(* identity provider fulfils or rejects getIdToken() otherwise), and the   *)
(* HTTP layer fulfils or rejects every request.                            *)
(***************************************************************************)
TokenSettled(c) == TokenAbsent(c) \/ TokenRejected(c) \/ TokenFulfilled(c)

Answering ==
    \A c \in Slots : WF_vars(TokenSettled(c)) /\ WF_vars(HttpSettled(c))

LiveSpec == Init /\ [][Next]_vars /\ Answering

(***************************************************************************)
(* The specification of construction: the same operations after            *)
(* new GaslessSDK(...) with every argument it can be given.                *)
(***************************************************************************)
CtorInit ==
    /\ \E config \in Configs :
          /\ construction = [config |-> config, thrown |-> Constructor(config).thrown]
          /\ relayerUrl = Constructor(config).relayerUrl
    /\ currentUser = JsNull
    /\ tokenEpoch = 0
    /\ calls = [c \in Slots |-> Idle]
    /\ relayCount = 0
    /\ conv = ConvIdle

CtorSpec == CtorInit /\ [][Next]_vars

(***************************************************************************)
(* The specification of concurrent callers: the same operations on an      *)
(* instance that several callers use at the same time, each with a call    *)
(* slot of its own.                                                        *)
(***************************************************************************)
Callers == 1..(MaxSlots + 1)

ConcInit ==
    /\ construction = [config |-> Obj([firebaseConfig |-> FirebaseConfig]),
                       thrown |-> Constructor(Obj([firebaseConfig |-> FirebaseConfig])).thrown]
    /\ relayerUrl = Constructor(Obj([firebaseConfig |-> FirebaseConfig])).relayerUrl
    /\ currentUser = JsNull
    /\ tokenEpoch = 0
    /\ calls = [c \in Callers |-> Idle]
    /\ relayCount = 0
    /\ conv = ConvIdle

ConcSpec == ConcInit /\ [][Next]_vars

(***************************************************************************)
(* The specification of the unit conversions: an amount is chosen and the  *)
(* two static functions are applied to it, one after the other, in any     *)
(* order.  vals[1] is the amount, vals[i + 1] the result of ops[i].        *)
(***************************************************************************)
Push(op, result) ==
    /\ conv.vals # <<>>
    /\ Len(conv.ops) < MaxOps
    /\ conv' = [ops |-> Append(conv.ops, op), vals |-> Append(conv.vals, result)]
    /\ UNCHANGED <<construction, relayerUrl, currentUser, tokenEpoch, calls, relayCount>>

ApplySolToLamports ==
    /\ conv.vals # <<>>
    /\ Push("solToLamports", solToLamports(conv.vals[Len(conv.vals)]))

ApplyLamportsToSol ==
    /\ conv.vals # <<>>
    /\ Push("lamportsToSol", lamportsToSol(conv.vals[Len(conv.vals)]))

ConvInit ==
    /\ construction = [config |-> Obj([firebaseConfig |-> FirebaseConfig]),
                       thrown |-> Constructor(Obj([firebaseConfig |-> FirebaseConfig])).thrown]
    /\ relayerUrl = Constructor(Obj([firebaseConfig |-> FirebaseConfig])).relayerUrl
    /\ currentUser = JsNull
    /\ tokenEpoch = 0
    /\ calls = [c \in Slots |-> Idle]
    /\ relayCount = 0
    /\ \E x \in ConvInputs : conv = [ops |-> <<>>, vals |-> <<x>>]

ConvNext == ApplySolToLamports \/ ApplyLamportsToSol

ConvSpec == ConvInit /\ [][ConvNext]_vars

(***************************************************************************)
(* Properties of the three relayer calls, checked under Spec.              *)
(***************************************************************************)
\* the values a method returns when the relayer or the network fails
FailureValues(kind) == {Catch(kind, o.error).value : o \in {h \in HttpOutcomes(kind) : ~h.ok}}

\* the returned value v names the missing authentication
NamesMissingAuthentication(v) ==
    "error" \in DOMAIN v /\ v.error = Str("User not authenticated")

\* C1 (as stated): with no user signed in, each of the three calls returns a
\* value that names the missing authentication (the same indication for the
\* three calls) and that differs from what the call returns when the relayer
\* or the network fails.
C1_UniformNotAuthenticated ==
    \A c \in DOMAIN calls :
        (calls[c].pc = "done" /\ calls[c].answer = NoUser)
            => /\ NamesMissingAuthentication(calls[c].value)
               /\ calls[c].value \notin FailureValues(calls[c].kind)

\* C1 (amended): with no user signed in, each of the three calls sends no
\* request and is fulfilled; sendTransaction's result is {success: false,
\* error: 'User not authenticated'}, getWallet's is null and
\* getTransactionHistory's is [], the values these two return on every
\* failure of the relayer or the network.
C1_NotAuthenticatedOutcome ==
    [][\A c \in DOMAIN calls :
          (/\ calls[c].pc = "token"
           /\ Nullish(calls[c].user)
           /\ calls'[c] # calls[c])
              => /\ calls'[c].pc = "done"
                 /\ calls'[c].nreq = 0
                 /\ calls'[c].settled = "fulfilled"
                 /\ calls[c].kind = "sendTransaction"
                       => calls'[c].value =
                             [success |-> FALSE, error |-> Str("User not authenticated")]
                 /\ calls[c].kind = "getWallet"
                       => /\ calls'[c].value = JsNull
                          /\ FailureValues("getWallet") = {JsNull}
                 /\ calls[c].kind = "getTransactionHistory"
                       => /\ calls'[c].value = Arr(<<>>)
                          /\ FailureValues("getTransactionHistory") = {Arr(<<>>)}]_vars

\* getWallet was called with no user signed in and returned null
C1_WalletWithoutUser ==
    \E c \in DOMAIN calls :
        /\ calls[c].pc = "done"
        /\ calls[c].kind = "getWallet"
        /\ calls[c].answer = NoUser
        /\ calls[c].value = JsNull
        /\ calls[c].nreq = 0

\* the relayer answered call c with an error response carrying a message
RelayerSaid(c) ==
    /\ calls[c].pc = "done"
    /\ calls[c].kind = "sendTransaction"
    /\ calls[c].answer.from = "http"
    /\ ~calls[c].answer.ok
    /\ calls[c].answer.said # JsUndefined

\* C2 (as stated): when the relayer answers sendTransaction with an error
\* response carrying a message m, the empty string included, the result is
\* {success: false, error: m}.
C2_ServerMessageExactly ==
    \A c \in DOMAIN calls :
        RelayerSaid(c) => calls[c].value = [success |-> FALSE, error |-> calls[c].answer.said]

\* C2 (amended): when the relayer answers sendTransaction with an error
\* response carrying a non-empty message m, the result is {success: false,
\* error: m}; when the message is the empty string, the error field is the
\* HTTP layer's own message.
C2_ServerMessageUnlessEmpty ==
    \A c \in DOMAIN calls :
        RelayerSaid(c)
            => /\ calls[c].settled = "fulfilled"
               /\ calls[c].value.success = FALSE
               /\ calls[c].answer.said.v # ""
                     => calls[c].value.error = calls[c].answer.said
               /\ calls[c].answer.said.v = ""
                     => calls[c].value.error = Str("Request failed with status code")

\* the relayer's message 'Too many requests' reached the caller
C2_ServerMessageSurfaced ==
    \E c \in DOMAIN calls :
        /\ RelayerSaid(c)
        /\ calls[c].answer.said = Str("Too many requests")
        /\ calls[c].value = [success |-> FALSE, error |-> Str("Too many requests")]

\* the answer is not a success: no user, token failure, no answer from the
\* network, a non-2xx response, or a 2xx response without a body
NonSuccess(answer) ==
    \/ ~answer.ok
    \/ Nullish(Get(answer.response, "data"))

C4_LookupsDegradeSilently ==
    \A c \in DOMAIN calls :
        (calls[c].pc = "done" /\ calls[c].kind \in {"getWallet", "getTransactionHistory"})
            => /\ calls[c].settled = "fulfilled"
               /\ (NonSuccess(calls[c].answer) /\ calls[c].kind = "getWallet")
                     => calls[c].value = JsNull
               /\ (NonSuccess(calls[c].answer) /\ calls[c].kind = "getTransactionHistory")
                     => calls[c].value = Arr(<<>>)

\* the relayer refused a history lookup and the caller got an empty list
C4_HistoryRefused ==
    \E c \in DOMAIN calls :
        /\ calls[c].pc = "done"
        /\ calls[c].kind = "getTransactionHistory"
        /\ calls[c].answer = HttpError(429, "Too many requests")
        /\ calls[c].settled = "fulfilled"
        /\ calls[c].value = Arr(<<>>)

\* C8: a call sends at most one request: a call that is waiting for the
\* relayer has sent one, and when the answer arrives, a failure included,
\* the call ends without sending another.
C8_AtMostOneRequest ==
    /\ [](\A c \in DOMAIN calls :
             /\ calls[c].nreq <= 1
             /\ calls[c].pc = "http" => calls[c].nreq = 1
             /\ (calls[c].pc = "done" /\ calls[c].answer.from = "http")
                   => calls[c].nreq = 1)
    /\ [][\A c \in DOMAIN calls :
             (calls[c].pc = "http" /\ calls'[c] # calls[c])
                => /\ calls'[c].pc = "done"
                   /\ calls'[c].nreq = calls[c].nreq]_vars

\* a request failed and the call ended after that one request
C8_FailedAfterOneRequest ==
    \E c \in DOMAIN calls :
        /\ calls[c].pc = "done"
        /\ calls[c].answer.from = "http"
        /\ ~calls[c].answer.ok
        /\ calls[c].nreq = 1

\* C9: every request carries, as a bearer token, the ID token obtained in
\* the same call from the user who was signed in when the call was made: a
\* call starts without a token, a request is sent only when the token fetch
\* of the call is fulfilled, with that token in the Authorization header, and
\* a call that gets no token ends without a request.
C9_BearerTokenOfThisCall ==
    [][\A c \in DOMAIN calls :
          /\ (calls[c].pc = "idle" /\ calls'[c].pc = "token")
                => /\ calls'[c].user = currentUser
                   /\ calls'[c].token = JsUndefined
                   /\ calls'[c].nreq = 0
          /\ calls'[c].nreq > calls[c].nreq
                => /\ calls[c].pc = "token"
                   /\ ~Nullish(calls[c].user)
                   /\ calls'[c].request.url.path \in {"/me", "/relay", "/transactions"}
                   /\ calls'[c].request.headers.Authorization =
                         [t |-> "string", scheme |-> "Bearer",
                          credentials |-> IdToken(calls[c].user.uid, tokenEpoch)]
          /\ (calls[c].pc = "token" /\ calls'[c].pc = "done")
                => calls'[c].nreq = 0]_vars

\* a request carries the refreshed token of the user who made the call,
\* while another user is signed in
C9_TokenOfTheCaller ==
    \E c \in DOMAIN calls :
        /\ calls[c].pc = "http"
        /\ calls[c].user = User("alice")
        /\ calls[c].request.headers.Authorization.credentials = IdToken("alice", 1)
        /\ currentUser = User("bob")

\* C10: the client enforces neither the maximum amount nor the rate limit:
\* once sendTransaction holds a token it sends POST /relay whatever the
\* recipient, the lamports and the number of earlier requests, the body
\* carries exactly the caller's recipient and lamports, and the result is a
\* success exactly when the relayer's answer is.
C10_NoClientSideLimits ==
    /\ [](\A c \in DOMAIN calls :
             /\ (calls[c].pc = "http" /\ calls[c].kind = "sendTransaction")
                   => /\ calls[c].request.method = "POST"
                      /\ calls[c].request.url = Url(relayerUrl, "/relay")
                      /\ calls[c].request.body =
                            Obj([to |-> calls[c].args.recipient,
                                 lamports |-> calls[c].args.lamports])
             /\ (/\ calls[c].pc = "done"
                 /\ calls[c].kind = "sendTransaction"
                 /\ calls[c].answer.from = "http")
                   => calls[c].value.success = ~NonSuccess(calls[c].answer))
    /\ [][\A c \in DOMAIN calls :
             (/\ calls[c].pc = "token"
              /\ calls[c].kind = "sendTransaction"
              /\ calls'[c].pc = "done")
                => calls'[c].answer \in {NoUser, TokenFailure}]_vars

\* a transfer above the documented maximum is sent after the documented
\* number of requests was exceeded
C10_OverLimitRequestSent ==
    \E c \in DOMAIN calls :
        /\ calls[c].pc = "http"
        /\ calls[c].kind = "sendTransaction"
        /\ calls[c].user = currentUser
        /\ relayCount > RateLimit
        /\ BNLt[MaxTransferLamports, WholeMagnitude(calls[c].request.body.f.lamports)]

(***************************************************************************)
(* Properties of the unit conversions, checked under ConvSpec.             *)
(***************************************************************************)
\* C5: converting an amount to lamports and back returns the amount, for
\* every amount: wherever solToLamports is applied to s and lamportsToSol to
\* its result, the second result is s.
C5_SolRoundTrip ==
    \A i \in 1..(Len(conv.ops) - 1) :
        (conv.ops[i] = "solToLamports" /\ conv.ops[i + 1] = "lamportsToSol")
            => conv.vals[i + 2] = conv.vals[i]

\* C6: converting a whole number of lamports to SOL and back returns it:
\* wherever lamportsToSol is applied to a whole number l and solToLamports to
\* its result, the second result is l.
C6_LamportsRoundTrip ==
    \A i \in 1..(Len(conv.ops) - 1) :
        (/\ conv.ops[i] = "lamportsToSol"
         /\ conv.ops[i + 1] = "solToLamports"
         /\ IsWhole(conv.vals[i]))
            => conv.vals[i + 2] = conv.vals[i]

\* C7: solToLamports(1) is 1000000000, lamportsToSol(1000000000) is 1, and
\* for every whole number n of SOL solToLamports(n) is n * 1000000000 (the
\* double of the exact product).
C7_WholeSol ==
    \A i \in 1..Len(conv.ops) :
        /\ (conv.ops[i] = "solToLamports" /\ conv.vals[i] = DInt(1))
              => conv.vals[i + 1] = DInt(1000000000)
        /\ (conv.ops[i] = "lamportsToSol" /\ conv.vals[i] = DInt(1000000000))
              => conv.vals[i + 1] = DInt(1)
        /\ (conv.ops[i] = "solToLamports" /\ IsWhole(conv.vals[i]))
              => conv.vals[i + 1] =
                    Round[conv.vals[i].neg,
                          BNMul[WholeMagnitude(conv.vals[i]), BNFromNat[1000000000]], 0]

\* one SOL was converted to lamports and back
C7_OneSolConverted ==
    /\ conv.ops = <<"solToLamports", "lamportsToSol">>
    /\ conv.vals = <<DInt(1), DInt(1000000000), DInt(1)>>

\* the decimal literals a caller writes for an amount, n / 10^d, each with
\* the double it denotes
DecimalLiterals == [n : (0 - MaxMantissa)..MaxMantissa, d : 0..MaxDecimals]
Denotations == {[literal |-> l, number |-> ParseDecimal(l.n, l.d)] : l \in DecimalLiterals}

\* the magnitude of the exact product of the amount l and 1000000000, as
\* the fraction ExactNumerator(l) / ExactDenominator(l)
ExactNumerator(l) == BNMul[BNFromNat[Abs(l.n)], Pow10[9]]
ExactDenominator(l) == Pow10[l.d]

\* the largest integer not greater than the exact product
ExactFloor(l) ==
    IF l.n >= 0
    THEN Round[FALSE, BNDivMod[ExactNumerator(l), ExactDenominator(l)][1], 0]
    ELSE IF BNDivMod[ExactNumerator(l), ExactDenominator(l)][2] = <<>>
         THEN Round[TRUE, BNDivMod[ExactNumerator(l), ExactDenominator(l)][1], 0]
         ELSE Round[TRUE, BNAdd[BNDivMod[ExactNumerator(l), ExactDenominator(l)][1],
                                <<1>>], 0]

\* the magnitude of the whole number r is at most (at least) the magnitude
\* of the exact product
MagnitudeAtMost(r, l) ==
    ~BNLt[ExactNumerator(l), BNMul[WholeMagnitude(r), ExactDenominator(l)]]
MagnitudeAtLeast(r, l) ==
    ~BNLt[BNMul[WholeMagnitude(r), ExactDenominator(l)], ExactNumerator(l)]

\* C22: solToLamports rounds down to a whole number of lamports: for every
\* amount s the result is the largest integer not greater than
\* s * 1000000000, so for a non-negative s the result does not exceed the
\* amount asked for, and for a negative s it is rounded away from zero.
C22_LargestIntegerBelow ==
    \A i \in 1..Len(conv.ops) :
        \A a \in Denotations :
            (conv.ops[i] = "solToLamports" /\ a.number = conv.vals[i])
                => /\ IsWhole(conv.vals[i + 1])
                   /\ conv.vals[i + 1] = ExactFloor(a.literal)
                   /\ a.literal.n >= 0
                         => /\ ~conv.vals[i + 1].neg
                            /\ MagnitudeAtMost(conv.vals[i + 1], a.literal)
                   /\ a.literal.n < 0
                         => /\ conv.vals[i + 1].neg
                            /\ MagnitudeAtLeast(conv.vals[i + 1], a.literal)

(***************************************************************************)
(* Properties of the constructor, checked under CtorSpec.                  *)
(***************************************************************************)
\* C11: the SDK can be constructed with no argument: the constructor returns
\* an instance, and the instance sends its requests to the default relayer
\* URL.
C11_ConstructedWithoutConfig ==
    construction.config = JsUndefined
        => /\ construction.thrown = JsUndefined
           /\ relayerUrl = Str("https://relayer-backend.onrender.com")
           /\ \A c \in DOMAIN calls :
                 calls[c].pc = "http" => calls[c].request.url.base = relayerUrl

(***************************************************************************)
(* Further properties of the three relayer calls, checked under Spec.      *)
(***************************************************************************)
\* C12: a sendTransaction call made while no user is signed in sends no
\* request and resolves to {success: false, error: 'User not authenticated'}.
C12_SendWithoutUser ==
    /\ [](\A c \in DOMAIN calls :
             (/\ calls[c].pc = "done"
              /\ calls[c].kind = "sendTransaction"
              /\ calls[c].answer = NoUser)
                => /\ calls[c].nreq = 0
                   /\ calls[c].settled = "fulfilled"
                   /\ calls[c].value =
                         [success |-> FALSE, error |-> Str("User not authenticated")])
    /\ [][\A c \in DOMAIN calls :
             (/\ calls[c].pc = "token"
              /\ calls[c].kind = "sendTransaction"
              /\ calls[c].user = JsNull
              /\ calls'[c] # calls[c])
                => /\ calls'[c].pc = "done"
                   /\ calls'[c].answer = NoUser
                   /\ calls'[c].nreq = 0]_vars

\* sendTransaction was called with no user signed in and told so
C12_SendRefusedWithoutUser ==
    \E c \in DOMAIN calls :
        /\ calls[c].pc = "done"
        /\ calls[c].kind = "sendTransaction"
        /\ calls[c].answer = NoUser
        /\ calls[c].nreq = 0
        /\ calls[c].value = [success |-> FALSE, error |-> Str("User not authenticated")]

\* sendTransaction call c ended in a failure result
SendFailed(c) ==
    /\ calls[c].pc = "done"
    /\ calls[c].kind = "sendTransaction"
    /\ calls[c].settled = "fulfilled"
    /\ calls[c].value.success = FALSE

\* C13 (as stated): the error of every failed sendTransaction result is a
\* message the relayer or the identity provider produced, forwarded
\* unchanged: the client originates none.
C13_OnlyForwardedMessages ==
    \A c \in DOMAIN calls :
        SendFailed(c)
            => \/ (calls[c].answer.from = "http" /\ calls[c].value.error = calls[c].answer.said)
               \/ (/\ calls[c].answer.from = "auth"
                   /\ ~Nullish(calls[c].answer.error)
                   /\ calls[c].value.error = Get(calls[c].answer.error, "message"))

\* C13 (amended): the client originates one message, 'User not
\* authenticated', which is the error of a call made with no user signed in;
\* the error of every other failed sendTransaction result is forwarded
\* unchanged: the relayer's message, or else the message of the error that
\* the identity provider, the HTTP layer or the runtime raised.
C13_OneOwnMessage ==
    \A c \in DOMAIN calls :
        SendFailed(c)
            => /\ calls[c].answer = NoUser
                     => calls[c].value.error = Str("User not authenticated")
               /\ calls[c].answer # NoUser
                     => calls[c].value.error \in
                           {calls[c].answer.said,
                            Get(calls[c].answer.error, "message"),
                            Str("Cannot read properties of null")}

\* the identity provider's message reached the caller unchanged
C13_ProviderMessageForwarded ==
    \E c \in DOMAIN calls :
        /\ SendFailed(c)
        /\ calls[c].answer = TokenFailure
        /\ calls[c].value.error = Str("Firebase: Error (auth/network-request-failed).")

\* the body of a 2xx answer
Body(answer) == Get(answer.response, "data")

\* C14 (as stated): for every 2xx answer to sendTransaction the result is
\* success = true with signature, recipient and lamports copied from the
\* response body, and has no error field.
C14_SuccessCopiesBody ==
    \A c \in DOMAIN calls :
        (calls[c].pc = "done" /\ calls[c].kind = "sendTransaction" /\ calls[c].answer.ok)
            => calls[c].value =
                  [success |-> TRUE,
                   signature |-> Get(Body(calls[c].answer), "signature"),
                   recipient |-> Get(Body(calls[c].answer), "recipient"),
                   lamports |-> Get(Body(calls[c].answer), "lamports")]

\* C14 (amended): for every 2xx answer to sendTransaction whose body is not
\* null the result is success = true with signature, recipient and lamports
\* copied from the response body (undefined where the body lacks the field),
\* whatever the caller passed, and has no error field; for a 2xx answer with
\* a null body the result is success = false with the TypeError's message.
C14_SuccessCopiesNonNullBody ==
    \A c \in DOMAIN calls :
        (calls[c].pc = "done" /\ calls[c].kind = "sendTransaction" /\ calls[c].answer.ok)
            => /\ calls[c].settled = "fulfilled"
               /\ ~Nullish(Body(calls[c].answer))
                     => /\ calls[c].value =
                              [success |-> TRUE,
                               signature |-> Get(Body(calls[c].answer), "signature"),
                               recipient |-> Get(Body(calls[c].answer), "recipient"),
                               lamports |-> Get(Body(calls[c].answer), "lamports")]
                        /\ DOMAIN calls[c].value =
                              {"success", "signature", "recipient", "lamports"}
               /\ Nullish(Body(calls[c].answer))
                     => calls[c].value =
                           [success |-> FALSE, error |-> Str("Cannot read properties of null")]

\* the result carries the amount the relayer reports, which is none of the
\* amounts a caller passes
C14_RelayerValuesReturned ==
    \E c \in DOMAIN calls :
        /\ calls[c].pc = "done"
        /\ calls[c].kind = "sendTransaction"
        /\ calls[c].answer = HttpOk(RelayData)
        /\ calls[c].value.success
        /\ calls[c].value.signature = Str("5igNature")
        /\ calls[c].value.recipient = Str("RecipientA")
        /\ calls[c].value.lamports = DInt(100000000)
        /\ calls[c].value.lamports \notin LamportsArgs

\* C15: the return types of the API hold for every answer of the relayer:
\* getTransactionHistory resolves to a list and getWallet to a string or
\* null, also when a 2xx body lacks the transactions or publicKey field.
C15_ReturnTypes ==
    \A c \in DOMAIN calls :
        (calls[c].pc = "done" /\ calls[c].settled = "fulfilled")
            => /\ calls[c].kind = "getTransactionHistory" => calls[c].value.t = "array"
               /\ calls[c].kind = "getWallet" => calls[c].value.t \in {"string", "null"}

\* config.relayerUrl is a non-empty string
CustomUrlGiven(config) ==
    /\ Get(config, "relayerUrl").t = "string"
    /\ Get(config, "relayerUrl").v # ""

\* C16: the relayer URL is fixed at construction: given a config with a
\* non-empty relayerUrl every request of the instance goes to that URL,
\* given one where it is omitted or empty every request goes to
\* 'https://relayer-backend.onrender.com', and no operation changes the URL.
C16_RelayerUrlFixed ==
    /\ [](Constructed
            => /\ CustomUrlGiven(construction.config)
                     => relayerUrl = Get(construction.config, "relayerUrl")
               /\ ~CustomUrlGiven(construction.config)
                     => relayerUrl = Str("https://relayer-backend.onrender.com")
               /\ \A c \in DOMAIN calls :
                     calls[c].pc = "http"
                        => /\ calls[c].request.url.base = relayerUrl
                           /\ calls[c].request.url.path \in {"/me", "/relay", "/transactions"})
    /\ [][relayerUrl' = relayerUrl /\ construction' = construction]_vars

\* an instance built with an empty relayerUrl sends a request to the default
C16_EmptyUrlGoesToDefault ==
    \E c \in DOMAIN calls :
        /\ Get(construction.config, "relayerUrl") = Str("")
        /\ calls[c].pc = "http"
        /\ calls[c].request.url = Url(Str("https://relayer-backend.onrender.com"), "/relay")

\* C17: a sign-out while a call is in flight does not cancel the call: the
\* sign-out leaves the call and its request as they are, the call ends only
\* with the relayer's answer, and what it returns is decided by that answer
\* (the wallet, the history, the transfer result, or the relayer's refusal)
\* whether or not a user is signed in when the answer arrives.
C17_SignOutDoesNotCancel ==
    /\ [](\A c \in DOMAIN calls :
             (calls[c].pc = "done" /\ calls[c].answer.from = "http")
                => /\ calls[c].nreq = 1
                   /\ calls[c].answer = HttpOk(WalletData)
                         => calls[c].value = Str("WalletPubKey")
                   /\ calls[c].answer = HttpOk(HistoryData)
                         => calls[c].value = Get(HistoryData, "transactions")
                   /\ calls[c].answer = HttpOk(RelayData)
                         => calls[c].value.success = TRUE
                   /\ (/\ calls[c].kind = "sendTransaction"
                       /\ calls[c].answer = HttpError(429, "Too many requests"))
                         => calls[c].value =
                               [success |-> FALSE, error |-> Str("Too many requests")])
    /\ [][\A c \in DOMAIN calls :
             /\ (calls[c].pc = "http" /\ currentUser # JsNull /\ currentUser' = JsNull)
                   => calls'[c] = calls[c]
             /\ (calls[c].pc = "http" /\ calls'[c] # calls[c])
                   => /\ calls'[c].pc = "done"
                      /\ calls'[c].answer \in HttpOutcomes(calls[c].kind)]_vars

\* the user has signed out and the request of alice's call is still in flight
C17_InFlightAfterSignOut ==
    \E c \in DOMAIN calls :
        /\ calls[c].pc = "http"
        /\ calls[c].user = User("alice")
        /\ calls[c].nreq = 1
        /\ currentUser = JsNull

\* the value a method returns to an unauthenticated caller
UnauthenticatedValue(kind) ==
    CASE kind = "getWallet" -> JsNull
      [] kind = "sendTransaction" ->
            [success |-> FALSE, error |-> Str("User not authenticated")]
      [] kind = "getTransactionHistory" -> Arr(<<>>)

\* C19 (as stated): a call sends a request if and only if a user was signed
\* in when the call read its token.
C19_RequestIffSignedIn ==
    \A c \in DOMAIN calls :
        calls[c].pc = "done" => (calls[c].nreq = 1 <=> calls[c].answer # NoUser)

\* C19 (amended): a call reads the signed-in user when it is made; with no
\* user (after a sign-out and before the next sign-in) it sends nothing and
\* returns its unauthenticated value; with a user it sends one request if
\* the token fetch succeeds, and sends nothing if the token fetch fails.
C19_RequestIffTokenObtained ==
    /\ [](\A c \in DOMAIN calls :
             calls[c].pc = "done"
                => /\ calls[c].nreq = 1 <=> calls[c].answer.from = "http"
                   /\ calls[c].answer = NoUser
                         => calls[c].value = UnauthenticatedValue(calls[c].kind))
    /\ [][\A c \in DOMAIN calls :
             /\ (calls[c].pc = "idle" /\ calls'[c].pc = "token")
                   => calls'[c].user = currentUser
             /\ (calls[c].pc = "token" /\ calls'[c] # calls[c])
                   => IF calls[c].user = JsNull
                      THEN calls'[c].pc = "done" /\ calls'[c].answer = NoUser
                      ELSE \/ calls'[c].pc = "http" /\ calls'[c].nreq = 1
                           \/ calls'[c].pc = "done" /\ calls'[c].answer = TokenFailure]_vars

\* after a user had sent a transfer and signed out, a history lookup
\* returned the empty list without a request
C19_LookupAfterSignOut ==
    \E c \in DOMAIN calls :
        /\ relayCount > 0
        /\ currentUser = JsNull
        /\ calls[c].pc = "done"
        /\ calls[c].kind = "getTransactionHistory"
        /\ calls[c].answer = NoUser
        /\ calls[c].nreq = 0
        /\ calls[c].value = Arr(<<>>)

\* C20: the error of a failed sendTransaction follows a fixed precedence:
\* the relayer's response message when it is a non-empty string; otherwise
\* the own message of what was thrown (the HTTP layer's for a status without
\* a usable message or a network failure, the identity provider's for a
\* failed token fetch, 'User not authenticated' for a missing user); and when
\* there is neither, the error is undefined.
C20_ErrorPrecedence ==
    \A c \in DOMAIN calls :
        SendFailed(c)
            => /\ "error" \in DOMAIN calls[c].value
               /\ (calls[c].answer.said.t = "string" /\ calls[c].answer.said.v # "")
                     => calls[c].value.error = calls[c].answer.said
               /\ calls[c].answer \in {HttpError(429, ""), HttpErrorNoMessage(500)}
                     => calls[c].value.error = Str("Request failed with status code")
               /\ calls[c].answer = HttpNoAnswer
                     => calls[c].value.error = Str("Network Error")
               /\ calls[c].answer = TokenFailure
                     => calls[c].value.error =
                           Str("Firebase: Error (auth/network-request-failed).")
               /\ calls[c].answer = NoUser
                     => calls[c].value.error = Str("User not authenticated")
               /\ calls[c].answer = HttpRejectedBare
                     => calls[c].value.error = JsUndefined

\* a rejection without response and without message gave an undefined error
C20_NeitherMessage ==
    \E c \in DOMAIN calls :
        /\ SendFailed(c)
        /\ calls[c].answer = HttpRejectedBare
        /\ calls[c].value = [success |-> FALSE, error |-> JsUndefined]

\* the fields a successful transfer reports
TransferFields == {"signature", "recipient", "lamports"}

\* C21: every result sendTransaction returns has one of two disjoint shapes:
\* success = true with no error field, or success = false with none of
\* signature, recipient, lamports; no result carries both a signature and an
\* error.
C21_TwoDisjointShapes ==
    \A c \in DOMAIN calls :
        (/\ calls[c].pc = "done"
         /\ calls[c].kind = "sendTransaction"
         /\ calls[c].settled = "fulfilled")
            => /\ \/ /\ calls[c].value.success = TRUE
                     /\ "error" \notin DOMAIN calls[c].value
                  \/ /\ calls[c].value.success = FALSE
                     /\ DOMAIN calls[c].value \cap TransferFields = {}
               /\ ~({"signature", "error"} \subseteq DOMAIN calls[c].value)

\* a 2xx answer whose body has none of the fields ended in a result of the
\* first shape: success = true, the three fields undefined, no error field
C21_SuccessWithoutError ==
    \E c \in DOMAIN calls :
        /\ calls[c].pc = "done"
        /\ calls[c].kind = "sendTransaction"
        /\ calls[c].answer = HttpOk(EmptyData)
        /\ calls[c].value.success
        /\ DOMAIN calls[c].value = {"success"} \cup TransferFields
        /\ calls[c].value.signature = JsUndefined

(***************************************************************************)
(* Termination of the three relayer calls, checked under LiveSpec.         *)
(***************************************************************************)
\* C23: every call of getWallet, sendTransaction or getTransactionHistory
\* eventually resolves when the token fetch and the HTTP layer each
\* eventually answer or fail; the client sets no timeout of its own: a call
\* that waits for the HTTP layer stays pending until the HTTP layer fulfils
\* or rejects the request, so it is pending forever when that never happens.
C23_EventuallyResolves ==
    /\ \A c \in Slots :
          (calls[c].pc \in {"token", "http"})
              ~> (calls[c].pc = "done" /\ calls[c].settled = "fulfilled")
    /\ [][\A c \in DOMAIN calls :
             (calls[c].pc = "http" /\ calls'[c] # calls[c])
                => /\ calls'[c].pc = "done"
                   /\ calls'[c].answer \in HttpOutcomes(calls[c].kind)]_vars

\* a request the network never delivered was rejected by the HTTP layer and
\* the call resolved
C23_ResolvedAfterNetworkError ==
    \E c \in DOMAIN calls :
        /\ calls[c].pc = "done"
        /\ calls[c].kind = "getWallet"
        /\ calls[c].answer = HttpNoAnswer
        /\ calls[c].nreq = 1
        /\ calls[c].settled = "fulfilled"
        /\ calls[c].value = JsNull

(***************************************************************************)
(* Properties of concurrent calls, checked under ConcSpec.                 *)
(***************************************************************************)
\* C18: concurrent calls do not interfere: a step of a call changes that
\* call only and leaves the relayer URL and the signed-in user as they are,
\* and the result of a call is decided by what was answered to it: two calls
\* of the same method with the same answer have the same result, whatever
\* the other call did in between.
C18_CallsDoNotInterfere ==
    /\ [](\A c, d \in DOMAIN calls :
             (/\ calls[c].pc = "done"
              /\ calls[d].pc = "done"
              /\ calls[c].kind = calls[d].kind
              /\ calls[c].answer = calls[d].answer)
                => /\ calls[c].settled = calls[d].settled
                   /\ calls[c].value = calls[d].value)
    /\ [][calls' # calls
             => /\ relayerUrl' = relayerUrl
                /\ construction' = construction
                /\ currentUser' = currentUser
                /\ \E c \in DOMAIN calls :
                      \A d \in DOMAIN calls \ {c} : calls'[d] = calls[d]]_vars

\* two transfers were in flight together; one was relayed, one was refused
C18_TwoCallsTwoResults ==
    \E c, d \in DOMAIN calls :
        /\ c # d
        /\ calls[c].pc = "done"
        /\ calls[d].pc = "done"
        /\ calls[c].answer = HttpOk(RelayData)
        /\ calls[d].answer = HttpError(429, "Too many requests")
        /\ calls[c].value.success
        /\ calls[d].value = [success |-> FALSE, error |-> Str("Too many requests")]

====
